---- MODULE Spec2Model ----
(***************************************************************************)
(* Task Manager API (applications/task-manager/main.py).                   *)
(*                                                                         *)
(* The handlers create_task, list_tasks, get_task, update_task and         *)
(* delete_task are asyncio coroutines.  Each `await connection.fetchrow/execute` is one    *)
(* auto-committed SQL statement on the tasks table and a point where       *)
(* another request may run, so a handler that issues two statements is     *)
(* two steps: the SELECT that checks, and the INSERT/UPDATE/DELETE that    *)
(* writes.  The code opens no transaction and takes no row lock.           *)
(***************************************************************************)
EXTENDS Integers, Sequences, FiniteSets, TLC

\* ---------------------------------------------------------------- bounds
MaxTs == 3       \* request timestamps are 1..MaxTs
MaxId == 2       \* at most MaxId rows are ever inserted
MaxNow == 2      \* the server clock NOW() ranges over 0..MaxNow

\* ---------------------------------------------------------------- inputs
Handlers == {"h1", "h2"}
Titles == {"a", "b"}
Contents == {"c1"}
DueDates == {"d1"}
Timestamps == 1..MaxTs
Ids == 1..MaxId

\* Optional[T]: None is the empty sequence, a present value v is <<v>>.
None == <<>>
Some(v) == <<v>>

VARIABLES
    tasks,       \* the tasks table: id -> row
    nextId,      \* the SERIAL sequence behind tasks.id
    now,         \* the database clock read by NOW()
    pc,          \* per handler: "idle", or the statement it is about to issue
    req,         \* per handler: the request in flight, NoReq when idle
    resp,        \* per handler: its latest answer and the operation answered,
                 \*   NoResp while a request is in flight
    served,      \* history, per handler: the latest request of its that was
                 \*   answered Created, Updated or Deleted
    seen,        \* history, per handler: how its latest request stood
                 \*   against the table when it arrived (see Standing)
    out,         \* history: the body of the answer to a Get or a List given
                 \*   in the step that led here, NoOut when none was
    written,     \* history, per id: the body of the latest answer Created or
                 \*   Updated for it, None once a Delete for it was answered
    fault,       \* history: the handler whose statement raised in the step
                 \*   that led here, "none" when no statement did
    buried       \* history: title and last watermark of every row removed

vars == <<tasks, nextId, now, pc, req, resp, served, seen, out, written, fault,
          buried>>

\* The histories a specification may leave untouched.
hist == <<served, out, written, fault, buried>>

\* ---------------------------------------------------------------- store
Stored == DOMAIN tasks

\* An id the sequence has handed out and that names no row any more.  Rows
\* leave the table only through delete_task's DELETE.
Gone(id) == id < nextId /\ id \notin Stored

\* ---------------------------------------------------------------- requests
NoReq == [op |-> "none", id |-> 0, ts |-> 0, title |-> None, content |-> None,
          due_date |-> None, done |-> None]

\* TaskCreate: title, content, due_date, request_timestamp are all required.
TaskCreate(title, content, due, ts) ==
    [op |-> "create", id |-> 0, ts |-> ts, title |-> Some(title),
     content |-> Some(content), due_date |-> Some(due), done |-> None]

\* TaskUpdate: every field but request_timestamp is Optional, default None.
TaskUpdate(id, patch, ts) ==
    [op |-> "update", id |-> id, ts |-> ts, title |-> patch.title,
     content |-> patch.content, due_date |-> patch.due_date,
     done |-> patch.done]

\* TaskDelete: request_timestamp only.
TaskDelete(id, ts) ==
    [op |-> "delete", id |-> id, ts |-> ts, title |-> None, content |-> None,
     due_date |-> None, done |-> None]

GetRequest(id) ==
    [op |-> "get", id |-> id, ts |-> 0, title |-> None, content |-> None,
     due_date |-> None, done |-> None]

ListRequest ==
    [op |-> "list", id |-> 0, ts |-> 0, title |-> None, content |-> None,
     due_date |-> None, done |-> None]

\* The update bodies the handlers are driven with: no field, or one field.
EmptyPatch == [title |-> None, content |-> None, due_date |-> None, done |-> None]
Patches ==
    {EmptyPatch}
    \cup {[EmptyPatch EXCEPT !.title = Some(v)] : v \in Titles}
    \cup {[EmptyPatch EXCEPT !.done = Some(v)] : v \in BOOLEAN}

\* NOW(): the clock never runs backwards.  Each statement that reads it
\* sees a later value than the statement before, until the clock reaches
\* MaxNow; from then on the readings tie.
ClockReads == {IF now < MaxNow THEN now + 1 ELSE now}

\* Mutant of NewId: the smallest id no row holds, so ids are handed out again.
NewIdReused == CHOOSE i \in 1..nextId : i \notin Stored /\ \A j \in 1..(i - 1) : j \in Stored

\* id SERIAL PRIMARY KEY: the next value of the sequence.
NewId == nextId

\* Mutant of NewTask: the watermark starts at the server clock, not at the
\* request timestamp.
NewTaskClockWatermark(r, n) ==
    [title |-> r.title[1], content |-> r.content[1], due_date |-> r.due_date[1],
     done |-> FALSE, created_at |-> n, updated_at |-> n,
     last_request_timestamp |-> n]

\* INSERT INTO tasks (title, content, due_date, last_request_timestamp):
\* done, created_at and updated_at take their column defaults.
NewTask(r, n) ==
    [title |-> r.title[1], content |-> r.content[1], due_date |-> r.due_date[1],
     done |-> FALSE, created_at |-> n, updated_at |-> n,
     last_request_timestamp |-> r.ts]

\* Mutant of DuplicateGuard: > where the query has >=.
DuplicateGuardStrict(title, ts) ==
    \E i \in Stored : tasks[i].title = title /\ tasks[i].last_request_timestamp > ts

\* Mutant of DuplicateGuard: rows are kept when deleted and the query still
\* sees them.
DuplicateGuardSeesBuried(title, ts) ==
    \/ \E i \in Stored : tasks[i].title = title /\ tasks[i].last_request_timestamp >= ts
    \/ \E b \in buried : b.title = title /\ b.watermark >= ts

\* WHERE title = $1 AND last_request_timestamp >= $2 returns a row.
DuplicateGuard(title, ts) ==
    \E i \in Stored : tasks[i].title = title /\ tasks[i].last_request_timestamp >= ts

\* Mutant of Stale: < where the handlers have <=.
StaleStrict(ts, w) == ts < w

\* request_timestamp <= current['last_request_timestamp']
Stale(ts, w) == ts <= w

\* The SET list update_task builds: one entry per supplied field, then the
\* two entries that are always appended.
Updates(r) ==
    {f \in {"title", "content", "due_date", "done"} : r[f] # None}
    \cup {"updated_at", "last_request_timestamp"}

\* Mutant of Apply: a full replace, a field the request leaves out goes
\* back to its column default.
ApplyFullReplace(row, r, n) ==
    [title |-> IF "title" \in Updates(r) THEN r.title[1] ELSE row.title,
     content |-> IF "content" \in Updates(r) THEN r.content[1] ELSE row.content,
     due_date |-> IF "due_date" \in Updates(r) THEN r.due_date[1] ELSE row.due_date,
     done |-> IF "done" \in Updates(r) THEN r.done[1] ELSE FALSE,
     created_at |-> row.created_at,
     updated_at |-> n,
     last_request_timestamp |-> r.ts]

\* Mutant of Apply: the UPDATE also stamps created_at.
ApplyStampsCreated(row, r, n) ==
    [title |-> IF "title" \in Updates(r) THEN r.title[1] ELSE row.title,
     content |-> IF "content" \in Updates(r) THEN r.content[1] ELSE row.content,
     due_date |-> IF "due_date" \in Updates(r) THEN r.due_date[1] ELSE row.due_date,
     done |-> IF "done" \in Updates(r) THEN r.done[1] ELSE row.done,
     created_at |-> n,
     updated_at |-> n,
     last_request_timestamp |-> r.ts]

\* The row after UPDATE tasks SET <Updates(r)> at clock reading n.
Apply(row, r, n) ==
    [title |-> IF "title" \in Updates(r) THEN r.title[1] ELSE row.title,
     content |-> IF "content" \in Updates(r) THEN r.content[1] ELSE row.content,
     due_date |-> IF "due_date" \in Updates(r) THEN r.due_date[1] ELSE row.due_date,
     done |-> IF "done" \in Updates(r) THEN r.done[1] ELSE row.done,
     created_at |-> row.created_at,
     updated_at |-> IF "updated_at" \in Updates(r) THEN n ELSE row.updated_at,
     last_request_timestamp |->
         IF "last_request_timestamp" \in Updates(r) THEN r.ts
         ELSE row.last_request_timestamp]

\* Mutant of Without: DELETE FROM tasks with no WHERE clause.
WithoutAny(id) == [i \in {} |-> tasks[i]]

\* Restriction of the table to the rows other than id.
Without(id) == [i \in Stored \ {id} |-> tasks[i]]

\* ---------------------------------------------------------------- answers
NoResp == [op |-> "none", kind |-> "none"]

\* TaskResponse: the columns the handlers SELECT or get back from RETURNING;
\* last_request_timestamp is not among them.
TaskResponse(id, row) ==
    [id |-> id, title |-> row.title, content |-> row.content,
     due_date |-> row.due_date, done |-> row.done,
     created_at |-> row.created_at, updated_at |-> row.updated_at]

NoOut == [op |-> "none", id |-> 0, body |-> <<>>]

\* The handler returns or raises: the request is over.
Answer(h, r, kind) ==
    /\ pc' = [pc EXCEPT ![h] = "idle"]
    /\ req' = [req EXCEPT ![h] = NoReq]
    /\ resp' = [resp EXCEPT ![h] = [op |-> r.op, kind |-> kind]]

\* The handler goes on to its next statement, stmt.
Proceed(h, r, stmt) ==
    /\ pc' = [pc EXCEPT ![h] = stmt]
    /\ req' = [req EXCEPT ![h] = r]
    /\ resp' = [resp EXCEPT ![h] = NoResp]

\* How a request stands against the table: a Create is "dup" when a stored
\* task has its title and a watermark >= its timestamp, else "clear"; a
\* request naming an id is "gone" for an id whose row was removed, "absent"
\* for an id never handed out, and for a stored id "older", "replay" or
\* "newer" as its timestamp is below, at or above the row's watermark
\* ("stored" for a Get, which carries no timestamp).  A List names no task:
\* it stands against the "table".
Standing(r) ==
    IF r.op = "list" THEN "table"
    ELSE IF r.op = "create"
    THEN IF \E i \in Stored : /\ tasks[i].title = r.title[1]
                              /\ tasks[i].last_request_timestamp >= r.ts
         THEN "dup" ELSE "clear"
    ELSE IF Gone(r.id) THEN "gone"
    ELSE IF r.id \notin Stored THEN "absent"
    ELSE IF r.op = "get" THEN "stored"
    ELSE IF r.ts < tasks[r.id].last_request_timestamp THEN "older"
    ELSE IF r.ts = tasks[r.id].last_request_timestamp THEN "replay"
    ELSE "newer"

\* Request r reaches handler h.
Arrive(h, r) == seen' = [seen EXCEPT ![h] = Standing(r)]

Inserting == {h \in Handlers : pc[h] = "insert"}

\* Mutant of Listings: ORDER BY created_at ASC.
ListingsAscending ==
    {s \in [1..Cardinality(Stored) -> Stored] :
        /\ \A i \in Stored : \E k \in DOMAIN s : s[k] = i
        /\ \A k \in 1..(Cardinality(Stored) - 1) :
              tasks[s[k]].created_at <= tasks[s[k + 1]].created_at}

\* SELECT ... FROM tasks ORDER BY created_at DESC: the orders the rows may
\* come back in, as sequences of ids.  Every row comes once and none comes
\* before a row created later; rows of one created_at come in either order.
Listings ==
    {s \in [1..Cardinality(Stored) -> Stored] :
        /\ \A i \in Stored : \E k \in DOMAIN s : s[k] = i
        /\ \A k \in 1..(Cardinality(Stored) - 1) :
              tasks[s[k]].created_at >= tasks[s[k + 1]].created_at}

\* The list comprehension of list_tasks: one TaskResponse per row, in order.
Rows(s) == [k \in DOMAIN s |-> TaskResponse(s[k], tasks[s[k]])]

\* ---------------------------------------------------------------- actions
Init ==
    /\ tasks = <<>>
    /\ nextId = 1
    /\ now = 0
    /\ pc = [h \in Handlers |-> "idle"]
    /\ req = [h \in Handlers |-> NoReq]
    /\ resp = [h \in Handlers |-> NoResp]
    /\ served = [h \in Handlers |-> NoReq]
    /\ seen = [h \in Handlers |-> "none"]
    /\ out = NoOut
    /\ written = [i \in Ids |-> None]
    /\ fault = "none"
    /\ buried = {}

\* create_task up to the INSERT: the duplicate-creation SELECT and its 409.
CreateCheck(h, title, content, due, ts) ==
    /\ pc[h] = "idle"
    /\ nextId + Cardinality(Inserting) <= MaxId
    /\ IF DuplicateGuard(title, ts)
       THEN Answer(h, TaskCreate(title, content, due, ts), "Conflict")
       ELSE Proceed(h, TaskCreate(title, content, due, ts), "insert")
    /\ Arrive(h, TaskCreate(title, content, due, ts))
    /\ UNCHANGED <<tasks, nextId, now>>

\* create_task from the INSERT on: the new row and the 201.
CreateInsert(h) ==
    /\ pc[h] = "insert"
    /\ \E n \in ClockReads :
        /\ now' = n
        /\ tasks' = [i \in Stored \cup {NewId} |->
                        IF i = NewId THEN NewTask(req[h], n) ELSE tasks[i]]
    /\ nextId' = nextId + 1
    /\ Answer(h, req[h], "Created")
    /\ UNCHANGED seen

\* list_tasks: one SELECT over the whole table, answered with its rows in
\* the order s they came back in.
ListTasks(h, s) ==
    /\ pc[h] = "idle"
    /\ s \in Listings
    /\ Answer(h, ListRequest, "OK")
    /\ Arrive(h, ListRequest)
    /\ UNCHANGED <<tasks, nextId, now>>

\* Mutant of GetTask: the read stamps the row it returns.
GetTaskStamps(h, id) ==
    /\ pc[h] = "idle"
    /\ IF id \in Stored
       THEN /\ Answer(h, GetRequest(id), "OK")
            /\ tasks' = [tasks EXCEPT ![id].updated_at = MaxNow]
       ELSE /\ Answer(h, GetRequest(id), "NotFound")
            /\ tasks' = tasks
    /\ Arrive(h, GetRequest(id))
    /\ UNCHANGED <<nextId, now>>

\* get_task: one SELECT, 404 or the row.
GetTask(h, id) ==
    /\ pc[h] = "idle"
    /\ IF id \in Stored
       THEN Answer(h, GetRequest(id), "OK")
       ELSE Answer(h, GetRequest(id), "NotFound")
    /\ Arrive(h, GetRequest(id))
    /\ UNCHANGED <<tasks, nextId, now>>

\* update_task up to the UPDATE: the SELECT, the 404, the staleness 409,
\* the SET list and its emptiness test.
UpdateCheck(h, id, patch, ts) ==
    /\ pc[h] = "idle"
    /\ LET r == TaskUpdate(id, patch, ts) IN
       IF id \notin Stored THEN Answer(h, r, "NotFound")
       ELSE IF Stale(ts, tasks[id].last_request_timestamp) THEN Answer(h, r, "Conflict")
       ELSE IF Updates(r) = {} THEN Answer(h, r, "InvalidRequest")
       ELSE Proceed(h, r, "update")
    /\ Arrive(h, TaskUpdate(id, patch, ts))
    /\ UNCHANGED <<tasks, nextId, now>>

\* update_task from the UPDATE on.  UPDATE ... WHERE id = $n RETURNING gives
\* no row when the task is gone; row['id'] on None then raises TypeError,
\* which the handler's `except Exception` turns into the 500.
UpdateWrite(h) ==
    /\ pc[h] = "update"
    /\ LET r == req[h] IN
       IF r.id \in Stored
       THEN /\ \E n \in ClockReads :
                 /\ now' = n
                 /\ tasks' = [tasks EXCEPT ![r.id] = Apply(tasks[r.id], r, n)]
            /\ Answer(h, r, "Updated")
       ELSE /\ Answer(h, r, "InternalError")
            /\ UNCHANGED <<tasks, now>>
    /\ UNCHANGED <<nextId, seen>>

\* delete_task up to the DELETE: the SELECT, the 404, the staleness 409.
DeleteCheck(h, id, ts) ==
    /\ pc[h] = "idle"
    /\ LET r == TaskDelete(id, ts) IN
       IF id \notin Stored THEN Answer(h, r, "NotFound")
       ELSE IF Stale(ts, tasks[id].last_request_timestamp) THEN Answer(h, r, "Conflict")
       ELSE Proceed(h, r, "delete")
    /\ Arrive(h, TaskDelete(id, ts))
    /\ UNCHANGED <<tasks, nextId, now>>

\* delete_task from the DELETE on.  The statement's result ("DELETE 0" or
\* "DELETE 1") is not looked at: the answer is the 200 either way.
DeleteWrite(h) ==
    /\ pc[h] = "delete"
    /\ tasks' = Without(req[h].id)
    /\ Answer(h, req[h], "Deleted")
    /\ UNCHANGED <<nextId, now, seen>>

\* Mutant of Raise: the error is logged and the request answered as done.
RaiseSwallowed(h, r) == Answer(h, r, "OK")

\* A statement raised (the pool gave no connection, the connection broke,
\* the statement timed out, the server returned an error): control lands in
\* the handler's `except Exception`, which logs and raises the 500.
Raise(h, r) == Answer(h, r, "InternalError")

\* Every request a handler may be given.
Requests ==
    {TaskCreate(t, c, d, ts) : t \in Titles, c \in Contents, d \in DueDates, ts \in Timestamps}
    \cup {ListRequest}
    \cup {GetRequest(id) : id \in Ids}
    \cup {TaskUpdate(id, p, ts) : id \in Ids, p \in Patches, ts \in Timestamps}
    \cup {TaskDelete(id, ts) : id \in Ids, ts \in Timestamps}

\* The first statement of a handler (its SELECT) raises: nothing was read
\* and nothing is written.
FirstCallFails(h, r) ==
    /\ pc[h] = "idle"
    /\ Raise(h, r)
    /\ seen' = [seen EXCEPT ![h] = "unseen"]
    /\ UNCHANGED <<tasks, nextId, now>>

\* The second statement of a handler (its INSERT, UPDATE or DELETE) raises:
\* the statement has taken no effect.
SecondCallFails(h) ==
    /\ pc[h] \in {"insert", "update", "delete"}
    /\ Raise(h, req[h])
    /\ UNCHANGED <<tasks, nextId, now, seen>>

\* History: served[h] follows the answers Created, Updated and Deleted.
Observe ==
    served' = [h \in Handlers |->
                  IF pc[h] # "idle" /\ resp'[h].kind \in {"Created", "Updated", "Deleted"}
                  THEN req[h] ELSE served[h]]

\* Every request on a task (Create, Get, Update, Delete), from every
\* handler, over a store whose statements succeed.  List and failing
\* statements come in NextRead and NextFail.
Next ==
    \/ \E h \in Handlers, t \in Titles, c \in Contents, d \in DueDates, ts \in Timestamps :
          CreateCheck(h, t, c, d, ts) /\ UNCHANGED hist
    \/ \E h \in Handlers : CreateInsert(h) /\ UNCHANGED hist
    \/ \E h \in Handlers, id \in Ids : GetTask(h, id) /\ UNCHANGED hist
    \/ \E h \in Handlers, id \in Ids, p \in Patches, ts \in Timestamps :
          UpdateCheck(h, id, p, ts) /\ UNCHANGED hist
    \/ \E h \in Handlers : UpdateWrite(h) /\ UNCHANGED hist
    \/ \E h \in Handlers, id \in Ids, ts \in Timestamps :
          DeleteCheck(h, id, ts) /\ UNCHANGED hist
    \/ \E h \in Handlers : DeleteWrite(h) /\ UNCHANGED hist

Spec == Init /\ [][Next]_vars

\* History: out follows the answers to Get and List, step by step.
Silent == out' = NoOut

Got(id) ==
    out' = [op |-> "get", id |-> id,
            body |-> IF id \in Stored THEN <<TaskResponse(id, tasks[id])>> ELSE None]

Listed(s) == out' = [op |-> "list", id |-> 0, body |-> Rows(s)]

\* History: written[i] follows the answers Created, Updated and Deleted for
\* id i: the row the INSERT or UPDATE gave back through RETURNING, None for
\* a Delete.
Written ==
    written' = [i \in Ids |->
        IF \E h \in Handlers :
               \/ pc[h] = "insert" /\ resp'[h].kind = "Created" /\ i = NewId
               \/ pc[h] = "update" /\ resp'[h].kind = "Updated" /\ i = req[h].id
        THEN <<TaskResponse(i, tasks'[i])>>
        ELSE IF \E h \in Handlers :
                    pc[h] = "delete" /\ resp'[h].kind = "Deleted" /\ i = req[h].id
        THEN None
        ELSE written[i]]

\* Concurrent writers only: creates of one title, updates of done.
RaceTitles == {"a"}
RacePatches == {[EmptyPatch EXCEPT !.done = Some(v)] : v \in BOOLEAN}

NextRace ==
    \/ \E h \in Handlers, t \in RaceTitles, c \in Contents, d \in DueDates, ts \in Timestamps :
          CreateCheck(h, t, c, d, ts) /\ Observe /\ UNCHANGED <<out, written, fault, buried>>
    \/ \E h \in Handlers : CreateInsert(h) /\ Observe /\ UNCHANGED <<out, written, fault, buried>>
    \/ \E h \in Handlers, id \in Ids, p \in RacePatches, ts \in Timestamps :
          UpdateCheck(h, id, p, ts) /\ Observe /\ UNCHANGED <<out, written, fault, buried>>
    \/ \E h \in Handlers : UpdateWrite(h) /\ Observe /\ UNCHANGED <<out, written, fault, buried>>

SpecRace == Init /\ [][NextRace]_vars

\* History: buried gathers the title and the watermark a row held when it
\* was removed.
Bury ==
    buried' = buried \cup
        {[title |-> tasks[i].title, watermark |-> tasks[i].last_request_timestamp] :
            i \in Stored \ DOMAIN tasks'}

\* Readers next to writers: the requests of NextRace, Delete, Get and List.
NextRead ==
    \/ \E h \in Handlers, t \in RaceTitles, c \in Contents, d \in DueDates, ts \in Timestamps :
          CreateCheck(h, t, c, d, ts) /\ Silent /\ Written /\ Bury /\ UNCHANGED <<served, fault>>
    \/ \E h \in Handlers : CreateInsert(h) /\ Silent /\ Written /\ Bury /\ UNCHANGED <<served, fault>>
    \/ \E h \in Handlers, s \in Listings :
          ListTasks(h, s) /\ Listed(s) /\ UNCHANGED <<served, written, fault, buried>>
    \/ \E h \in Handlers, id \in Ids :
          GetTask(h, id) /\ Got(id) /\ UNCHANGED <<served, written, fault, buried>>
    \/ \E h \in Handlers, id \in Ids, p \in RacePatches, ts \in Timestamps :
          UpdateCheck(h, id, p, ts) /\ Silent /\ Written /\ Bury /\ UNCHANGED <<served, fault>>
    \/ \E h \in Handlers : UpdateWrite(h) /\ Silent /\ Written /\ Bury /\ UNCHANGED <<served, fault>>
    \/ \E h \in Handlers, id \in Ids, ts \in Timestamps :
          DeleteCheck(h, id, ts) /\ Silent /\ Written /\ Bury /\ UNCHANGED <<served, fault>>
    \/ \E h \in Handlers : DeleteWrite(h) /\ Silent /\ Written /\ Bury /\ UNCHANGED <<served, fault>>

SpecRead == Init /\ [][NextRead]_vars

\* History: no statement raised in this step / a statement of h did.
Calm == fault' = "none" /\ UNCHANGED <<served, out, written, buried>>

Faulty(h) == fault' = h /\ UNCHANGED <<served, out, written, buried>>

\* The requests of NextRead over a store whose statements may fail.
NextFail ==
    \/ \E h \in Handlers, t \in RaceTitles, c \in Contents, d \in DueDates, ts \in Timestamps :
          CreateCheck(h, t, c, d, ts) /\ Calm
    \/ \E h \in Handlers : CreateInsert(h) /\ Calm
    \/ \E h \in Handlers, s \in Listings : ListTasks(h, s) /\ Calm
    \/ \E h \in Handlers, id \in Ids : GetTask(h, id) /\ Calm
    \/ \E h \in Handlers, id \in Ids, p \in RacePatches, ts \in Timestamps :
          UpdateCheck(h, id, p, ts) /\ Calm
    \/ \E h \in Handlers : UpdateWrite(h) /\ Calm
    \/ \E h \in Handlers, id \in Ids, ts \in Timestamps :
          DeleteCheck(h, id, ts) /\ Calm
    \/ \E h \in Handlers : DeleteWrite(h) /\ Calm
    \/ \E h \in Handlers, r \in Requests : FirstCallFails(h, r) /\ Faulty(h)
    \/ \E h \in Handlers : SecondCallFails(h) /\ Faulty(h)

SpecFail == Init /\ [][NextFail]_vars

\* ---------------------------------------------------------------- claims
Watermark(i) == tasks[i].last_request_timestamp

NoFields(r) == r.title = None /\ r.content = None /\ r.due_date = None /\ r.done = None

\* C1: the stored watermark of a task never decreases: no step takes a
\* stored task's last_request_timestamp to a smaller value.
C1_WatermarkNeverDecreases ==
    [][\A i \in Stored \cap DOMAIN tasks' :
          tasks'[i].last_request_timestamp >= Watermark(i)]_vars

\* C2: when two Updates of done on the same task have both been answered
\* Updated and nothing is in flight, the stored done is the value supplied
\* by the one with the greater request timestamp.
C2_LatestUpdateWins ==
    \A h1, h2 \in Handlers, i \in Stored :
        ( /\ \A h \in Handlers : pc[h] = "idle"
          /\ served[h1].op = "update" /\ served[h1].id = i
          /\ served[h2].op = "update" /\ served[h2].id = i
          /\ served[h1].done # None /\ served[h2].done # None
          /\ served[h1].ts > served[h2].ts )
        => tasks[i].done = served[h1].done[1]

\* C3: when two Updates with different request timestamps on the same task
\* have both been answered Updated and nothing is in flight, the watermark
\* is the greater of the two timestamps.
C3_FinalWatermarkIsMax ==
    \A h1, h2 \in Handlers, i \in Stored :
        ( /\ \A h \in Handlers : pc[h] = "idle"
          /\ served[h1].op = "update" /\ served[h1].id = i
          /\ served[h2].op = "update" /\ served[h2].id = i
          /\ served[h1].ts > served[h2].ts )
        => Watermark(i) = served[h1].ts

\* Handler h takes up a request in this step.
Began(h) ==
    /\ pc[h] = "idle"
    /\ <<pc[h], req[h], resp[h], seen[h]>>' # <<pc[h], req[h], resp[h], seen[h]>>

\* The operation of the request handler h is serving or has last answered.
OpOf(h) == IF pc[h] = "idle" THEN resp[h].op ELSE req[h].op

\* C4: an Update or a Delete that reaches a stored task with a request
\* timestamp not above the task's watermark (equal included) is answered
\* Conflict at once and the table is left as it was.
C4_StaleRejected ==
    [][\A h \in Handlers :
          (Began(h) /\ OpOf(h)' \in {"update", "delete"} /\ seen'[h] \in {"older", "replay"})
          => ( /\ resp'[h].kind = "Conflict"
               /\ pc'[h] = "idle"
               /\ tasks' = tasks )]_vars

\* C4 witness: an Update whose timestamp equalled the watermark and a Delete
\* whose timestamp was below it have both been answered Conflict.
C4_Witness ==
    \E h1, h2 \in Handlers :
        /\ seen[h1] = "replay" /\ resp[h1] = [op |-> "update", kind |-> "Conflict"]
        /\ seen[h2] = "older" /\ resp[h2] = [op |-> "delete", kind |-> "Conflict"]

\* C5: the DELETE of a Delete request removes a row only when the request
\* timestamp is above the watermark the row holds at that moment.
C5_DeleteOnlyAboveWatermark ==
    [][\A h \in Handlers :
          (pc[h] = "delete" /\ pc'[h] = "idle" /\ req[h].id \in Stored)
          => req[h].ts > Watermark(req[h].id)]_vars

\* C6: once an id is Gone (its row was removed by a Delete answered
\* Deleted) it never names a row again, and every Get, Update or Delete
\* that arrives for it is answered NotFound, whatever its timestamp.
C6_DeletionTerminal ==
    [][/\ \A i \in Ids : Gone(i) => i \notin DOMAIN tasks'
       /\ \A h \in Handlers :
            (Began(h) /\ seen'[h] = "gone")
            => (resp'[h].kind = "NotFound" /\ pc'[h] = "idle")]_vars

\* C6 witness: an Update that arrived for a Gone id has been answered
\* NotFound while the other handler's latest answer is Deleted, and a later
\* Create has put a row in the table.
C6_Witness ==
    /\ \E h1, h2 \in Handlers :
        /\ seen[h1] = "gone" /\ resp[h1] = [op |-> "update", kind |-> "NotFound"]
        /\ resp[h2] = [op |-> "delete", kind |-> "Deleted"]
    /\ Gone(1) /\ 2 \in Stored

\* C7: a Create with title t and timestamp ts that arrives while a stored
\* task has title t and a watermark >= ts is answered Conflict at once and
\* inserts nothing.
C7_DuplicateCreateRejected ==
    [][\A h \in Handlers :
          (Began(h) /\ seen'[h] = "dup")
          => ( /\ resp'[h] = [op |-> "create", kind |-> "Conflict"]
               /\ pc'[h] = "idle"
               /\ tasks' = tasks /\ nextId' = nextId )]_vars

\* C7 witness: a Create that arrived as a duplicate has been answered
\* Conflict.
C7_Witness ==
    \E h \in Handlers :
        seen[h] = "dup" /\ resp[h] = [op |-> "create", kind |-> "Conflict"]

\* C8: a Create whose timestamp is above the watermark of every stored task
\* of its title passes the guard, and a Create that passed the guard is
\* answered Created and adds exactly one row: a fresh id, the request's
\* title, content and due date, done = FALSE, watermark = the request
\* timestamp; every other row is left as it was.
C8_CreateInsertsOneFreshTask ==
    [][\A h \in Handlers :
          /\ (Began(h) /\ seen'[h] = "clear") => pc'[h] = "insert"
          /\ (pc[h] = "insert" /\ pc'[h] # "insert")
             => /\ resp'[h] = [op |-> "create", kind |-> "Created"]
                /\ \E i \in Ids :
                     /\ i \notin Stored /\ ~Gone(i)
                     /\ DOMAIN tasks' = Stored \cup {i}
                     /\ tasks'[i].title = req[h].title[1]
                     /\ tasks'[i].content = req[h].content[1]
                     /\ tasks'[i].due_date = req[h].due_date[1]
                     /\ tasks'[i].done = FALSE
                     /\ tasks'[i].last_request_timestamp = req[h].ts
                     /\ tasks'[i].created_at = tasks'[i].updated_at
                     /\ \A j \in Stored : tasks'[j] = tasks[j]]_vars

\* C8 witness: a Create that arrived clear has been answered Created and
\* the table holds two tasks of one title, the newer id with done = FALSE
\* and the later watermark.
C8_Witness ==
    /\ \E h \in Handlers :
         seen[h] = "clear" /\ resp[h] = [op |-> "create", kind |-> "Created"]
    /\ \E i, j \in Stored :
         /\ i < j /\ tasks[i].title = tasks[j].title
         /\ Watermark(i) < Watermark(j) /\ tasks[j].done = FALSE

\* C9: two Creates carrying the same title and the same request timestamp
\* are never both answered Created.
C9_DuplicateCreateAtMostOnce ==
    \A h1, h2 \in Handlers :
        ( /\ h1 # h2
          /\ served[h1].op = "create" /\ served[h2].op = "create"
          /\ served[h1].title = served[h2].title )
        => served[h1].ts # served[h2].ts

\* C10: an Update that supplies no field and is not stale is answered
\* InvalidRequest and leaves the table as it was.
C10_EmptyUpdateInvalid ==
    [][\A h \in Handlers :
          (pc[h] = "update" /\ NoFields(req[h]) /\ req[h].id \in Stored /\ pc'[h] = "idle")
          => (resp'[h].kind = "InvalidRequest" /\ tasks' = tasks)]_vars

\* The value field f of row old takes under request r: the supplied value,
\* or the old one when r leaves f out.
Merged(old, r, f) == IF r[f] # None THEN r[f][1] ELSE old[f]

\* C11: an Update answered Updated sets exactly the fields among title,
\* content, due_date and done that the request supplies, sets the watermark
\* to the request timestamp and updated_at to the clock reading of the
\* statement; every field the request leaves out, and created_at, keep the
\* value the row held just before.
C11_PartialUpdate ==
    [][\A h \in Handlers :
          (pc[h] = "update" /\ resp'[h].kind = "Updated")
          => /\ \A f \in {"title", "content", "due_date", "done"} :
                   tasks'[req[h].id][f] = Merged(tasks[req[h].id], req[h], f)
             /\ tasks'[req[h].id].last_request_timestamp = req[h].ts
             /\ tasks'[req[h].id].updated_at = now'
             /\ tasks'[req[h].id].created_at = tasks[req[h].id].created_at]_vars

\* C11 witness: an Update has been answered Updated and a stored task holds
\* done = TRUE, which only an Update supplying done can set, next to a
\* title and an updated_at past created_at.
C11_Witness ==
    /\ \E h \in Handlers : resp[h] = [op |-> "update", kind |-> "Updated"]
    /\ \E i \in Stored :
         /\ tasks[i].done = TRUE /\ tasks[i].title = "b"
         /\ tasks[i].updated_at > tasks[i].created_at

\* C12: where no statement fails (Spec has no failing statement), every
\* Update is answered Updated, NotFound, Conflict or InvalidRequest, a
\* Delete of the same id running alongside or not; none is answered with
\* the 500.
C12_UpdateNeverInternalError ==
    \A h \in Handlers :
        resp[h].op = "update"
        => resp[h].kind \in {"Updated", "NotFound", "Conflict", "InvalidRequest"}

\* C13: a Get or a List leaves the table as it was (no row added, removed
\* or changed, no watermark moved, no id handed out) and is answered at
\* once; a Get for an id that some write was answered for returns the row
\* the latest Created or Updated answer for it carried, and is answered
\* NotFound exactly when the latest such answer was Deleted.
C13_ReadsReflectWrites ==
    [][\A h \in Handlers :
          (Began(h) /\ OpOf(h)' \in {"get", "list"})
          => /\ tasks' = tasks /\ nextId' = nextId
             /\ pc'[h] = "idle"
             /\ (OpOf(h)' = "get" /\ out'.id < nextId)
                => /\ out'.body = written[out'.id]
                   /\ resp'[h].kind = IF written[out'.id] = None
                                      THEN "NotFound" ELSE "OK"]_vars

\* C13 witness: a Get has just returned a task with done = TRUE and an
\* updated_at past its created_at, the state an Update left, while the
\* other id was deleted.
C13_Witness ==
    /\ out.op = "get" /\ out.body # None
    /\ out.body[1].done = TRUE
    /\ out.body[1].updated_at > out.body[1].created_at
    /\ \E i \in Ids : Gone(i) /\ written[i] = None
    /\ \E h \in Handlers : resp[h] = [op |-> "get", kind |-> "OK"]

\* C16: a List is answered with exactly the stored tasks, each once and as
\* stored, most recently created first; an id whose row was removed is not
\* among them.
C16_ListStoredNewestFirst ==
    [][\A h \in Handlers :
          (Began(h) /\ OpOf(h)' = "list")
          => /\ resp'[h].kind = "OK"
             /\ out'.op = "list"
             /\ Len(out'.body) = Cardinality(Stored)
             /\ \A i \in Stored :
                   \E k \in DOMAIN out'.body : out'.body[k] = TaskResponse(i, tasks[i])
             /\ \A k \in DOMAIN out'.body : ~Gone(out'.body[k].id)
             /\ \A k \in 1..(Len(out'.body) - 1) :
                   out'.body[k].created_at >= out'.body[k + 1].created_at]_vars

\* C16 witness: a List has just returned two tasks, the later created one
\* first.
C16_Witness ==
    /\ out.op = "list" /\ Len(out.body) = 2
    /\ out.body[1].created_at > out.body[2].created_at
    /\ \E h \in Handlers : resp[h] = [op |-> "list", kind |-> "OK"]

\* C14: a stored task keeps its id and its created_at for as long as it is
\* stored: no step changes the created_at held under an id, and no UPDATE
\* in flight has id or created_at in its SET list.
C14_IdAndCreatedAtFixed ==
    [][/\ \A i \in Stored \cap DOMAIN tasks' :
             tasks'[i].created_at = tasks[i].created_at
       /\ \A h \in Handlers :
             pc[h] = "update" => Updates(req[h]) \cap {"id", "created_at"} = {}]_vars

\* C14 witness: two tasks are stored, one of them updated after its
\* creation, and an Update has been answered Conflict.
C14_Witness ==
    /\ \E i, j \in Stored : i # j /\ tasks[i].updated_at > tasks[i].created_at
    /\ \E h \in Handlers : resp[h] = [op |-> "update", kind |-> "Conflict"]

\* C15: an Update or a Delete on id A leaves every other id as it was: stored
\* or not, and with the same row.  Its outcome follows from A's own
\* standing and the request: NotFound when A names no row, Conflict when
\* the request timestamp is not above A's watermark, else it goes on to its
\* UPDATE or DELETE; the UPDATE is answered Updated when A's row is there,
\* the DELETE is answered Deleted.
C15_DistinctIdsIndependent ==
    [][\A h \in Handlers :
          /\ (Began(h) /\ OpOf(h)' \in {"update", "delete"})
             => /\ tasks' = tasks
                /\ seen'[h] \in {"gone", "absent"}
                      => (pc'[h] = "idle" /\ resp'[h].kind = "NotFound")
                /\ seen'[h] \in {"older", "replay"}
                      => (pc'[h] = "idle" /\ resp'[h].kind = "Conflict")
                /\ seen'[h] = "newer" => pc'[h] = OpOf(h)'
          /\ (pc[h] \in {"update", "delete"} /\ pc'[h] = "idle")
             => /\ \A j \in Ids \ {req[h].id} :
                      /\ j \in Stored <=> j \in DOMAIN tasks'
                      /\ j \in Stored => tasks'[j] = tasks[j]
                /\ (pc[h] = "update" /\ req[h].id \in Stored)
                      => resp'[h].kind = "Updated"
                /\ pc[h] = "delete" => resp'[h].kind = "Deleted"]_vars

\* C15 witness: a Delete on id 1 has been answered Deleted and an Update
\* Updated, id 1 is gone and id 2 is stored with done = TRUE, which an
\* Update on id 2 set.
C15_Witness ==
    /\ Gone(1) /\ 2 \in Stored
    /\ tasks[2].done = TRUE
    /\ \E h1, h2 \in Handlers :
         /\ resp[h1] = [op |-> "delete", kind |-> "Deleted"]
         /\ resp[h2] = [op |-> "update", kind |-> "Updated"]

C18_CreateAfterDelete ==
    [][\A h \in Handlers :
          /\ \A t \in Titles, c \in Contents, d \in DueDates, ts \in Timestamps :
                (CreateCheck(h, t, c, d, ts) /\ \A i \in Stored : tasks[i].title # t)
                => pc'[h] = "insert"
          /\ (pc[h] = "insert" /\ pc'[h] = "idle")
             => /\ resp'[h].kind = "Created"
                /\ ~Gone(nextId) /\ nextId \notin Stored
                /\ nextId \in DOMAIN tasks'
                /\ tasks'[nextId].title = req[h].title[1]]_vars

\* C18 witness: a task was removed, and the one task now stored holds the
\* removed task's title with a watermark not above the one the removed task
\* last held; it sits under a later id and a Create has been answered
\* Created.
C18_Witness ==
    /\ Cardinality(Stored) = 1
    /\ \E i \in Stored, b \in buried :
         /\ tasks[i].title = b.title
         /\ Watermark(i) <= b.watermark
         /\ \E j \in Ids : j < i /\ Gone(j)
    /\ \E h \in Handlers : resp[h] = [op |-> "create", kind |-> "Created"]

\* A Delete on id i has been answered Deleted: i was handed out, which set
\* written[i] to the created row, and only the answer Deleted resets it.
AnsweredDeleted(i) == i < nextId /\ written[i] = None

\* C19: for every id at most one Delete is answered Deleted: no Delete is
\* answered Deleted for an id a Delete was answered Deleted for before.
C19_AtMostOneDeleted ==
    [][\A h \in Handlers :
          (pc[h] = "delete" /\ resp'[h].kind = "Deleted")
          => ~AnsweredDeleted(req[h].id)]_vars

====
